---- MODULE Spec2Model ----
(***************************************************************************)
(* Verification model of the vectra-engine core (src/vectra-engine/src/    *)
(* lib.rs): the compressed undo/redo HistoryManager and the retained-mode  *)
(* LayoutEngine (spatial hash + 9-point snapping).                         *)
(*                                                                         *)
(* Conventions.  Rust indices are 0-based and are kept 0-based here        *)
(* (current_index, rect indices); the element with Rust index i of a       *)
(* sequence s is s[i + 1].  Option<T> is a sequence of length <= 1:        *)
(* None is << >> and Some(v) is << v >>.                                   *)
(***************************************************************************)
EXTENDS Integers, Sequences, FiniteSets, TLC

VARIABLES
    stack,          \* HistoryManager.stack: Vec<Vec<u8>> of compressed snapshots
    current_index,  \* HistoryManager.current_index (0-based)
    op,             \* the HistoryManager call made last: "new", "push_state", "undo", "redo"
    ret,            \* what that call returned (Option<String>; None for new / push_state)
    arg,            \* the payload handed to that call (new / push_state), else the old one
    pushes,         \* number of push_state calls so far (the next fresh payload)
    undos,          \* number of undo calls so far
    discarded,      \* payloads dropped by redo-branch truncation so far
    io_errors,      \* number of compressions whose IO failed so far
    ref,            \* reference history: the uncompressed payloads, oldest first
    ref_index       \* reference history: its cursor (0-based)

hvars == << stack, current_index, op, ret, arg, pushes, undos, discarded,
            io_errors, ref, ref_index >>

VARIABLES
    rects,          \* LayoutEngine.rects: Vec<SimpleRect>
    grid,           \* LayoutEngine.grid: HashMap<(gx, gy), Vec<usize>>, a function on its keys
    cell_size,      \* LayoutEngine.cell_size, an f64
    lop,            \* the LayoutEngine call made last
    q,              \* the arguments of the last query_snapping call
    res             \* what the last query_snapping call returned

lvars == << rects, grid, cell_size, lop, q, res >>

VARIABLES
    g_input,        \* absolute_to_grid: nodes_json, as [parsed, nodes]
    g_pc,           \* absolute_to_grid: "idle" (not called), "call" (entered), "done"
    g_res           \* absolute_to_grid: what the call returned, with its intermediate lines

gvars == << g_input, g_pc, g_res >>

vars == << hvars, lvars, gvars >>

----------------------------------------------------------------------------
(* Bounds of the exploration.                                              *)

\* push_state calls explored in one behaviour; payload k is the k-th pushed state.
MaxPush == 52
\* undo calls explored in one behaviour.
MaxUndo == 2
\* push_state calls explored in one behaviour when compression may fail.
MaxPushFault == 5
\* compressions that fail in one behaviour when compression may fail.
MaxIoErrors == 1
\* rects in one update_rects call.
MaxRects == 2
\* nodes in one absolute_to_grid call.
MaxNodes == 3

----------------------------------------------------------------------------
(* PRIORITY 3: HISTORY MANAGER (lib.rs 271..366)                           *)

None == << >>
Some(v) == << v >>

\* HistoryManager::new sets max_history: 50.
max_history == 50

\* The payload given to HistoryManager::new.
InitialState == 0

\* Marker standing for the gzip member header GzEncoder writes first.
GzHeader == "gz"

\* compress_state: a gzip stream of the bytes of `data` (header, then the
\* deflated body, which the model keeps as the payload it encodes).  io_ok is
\* the outcome of enc.write_all / enc.finish: on an IO error the function
\* returns the empty Vec.
compress_state(data, io_ok) ==
    IF io_ok THEN << GzHeader, data >> ELSE << >>

\* decompress_state: None on empty input or when the gzip decoder fails,
\* else Some(decoded string).
decompress_state(data) ==
    IF data = << >> THEN None
    ELSE IF Len(data) = 2 /\ data[1] = GzHeader THEN Some(data[2])
    ELSE None

\* Vec::truncate(len): keeps the first len elements, no effect if len >= Len.
truncate(s, len) == IF len < Len(s) THEN SubSeq(s, 1, len) ELSE s

\* Vec::remove(0): drops the first element, shifting the others down.
remove0(s) == Tail(s)

\* HistoryManager::push_state as a function of the fields and of the compressed
\* entry: the new fields.  (Before it, three faulty variants: one that keeps the
\* redo branch, one that never evicts, one that evicts the newest entry.)
push_state_no_truncate(st, ci, entry) ==
    LET s2 == Append(st, entry)
        i2 == ci + 1
    IN  IF Len(s2) > max_history
        THEN [stack |-> remove0(s2), current_index |-> i2 - 1]
        ELSE [stack |-> s2, current_index |-> i2]
push_state_no_evict(st, ci, entry) ==
    LET s1 == IF ci < Len(st) - 1 THEN truncate(st, ci + 1) ELSE st
    IN  [stack |-> Append(s1, entry), current_index |-> ci + 1]
push_state_evict_newest(st, ci, entry) ==
    LET s1 == IF ci < Len(st) - 1 THEN truncate(st, ci + 1) ELSE st
        s2 == Append(s1, entry)
        i2 == ci + 1
    IN  IF Len(s2) > max_history
        THEN [stack |-> SubSeq(s2, 1, Len(s2) - 1), current_index |-> i2 - 1]
        ELSE [stack |-> s2, current_index |-> i2]
push_state(st, ci, entry) ==
    LET s1 == IF ci < Len(st) - 1 THEN truncate(st, ci + 1) ELSE st
        s2 == Append(s1, entry)
        i2 == ci + 1
    IN  IF Len(s2) > max_history
        THEN [stack |-> remove0(s2), current_index |-> i2 - 1]
        ELSE [stack |-> s2, current_index |-> i2]

\* HistoryManager::undo: the new cursor and the returned Option<String>.
\* (Before it, two faulty variants: one that returns the entry it leaves, one
\* that wraps around at the bottom.)
undo_stale(st, ci) ==
    IF ci > 0
    THEN [current_index |-> ci - 1, ret |-> decompress_state(st[ci + 1])]
    ELSE [current_index |-> ci, ret |-> None]
undo_wrap(st, ci) ==
    IF ci > 0
    THEN [current_index |-> ci - 1, ret |-> decompress_state(st[ci])]
    ELSE [current_index |-> Len(st) - 1, ret |-> decompress_state(st[Len(st)])]
undo(st, ci) ==
    IF ci > 0
    THEN [current_index |-> ci - 1, ret |-> decompress_state(st[ci])]
    ELSE [current_index |-> ci, ret |-> None]

\* HistoryManager::redo.
redo(st, ci) ==
    IF ci < Len(st) - 1
    THEN [current_index |-> ci + 1, ret |-> decompress_state(st[ci + 2])]
    ELSE [current_index |-> ci, ret |-> None]

can_undo(st, ci) == ci > 0
can_redo(st, ci) == ci < Len(st) - 1

\* The payloads the entries of a stack decode to.
Payloads(st) == { decompress_state(st[i])[1] : i \in { j \in 1..Len(st) : decompress_state(st[j]) # None } }


----------------------------------------------------------------------------
(* f64 arithmetic (IEEE 754 binary64, round to nearest, ties to even).     *)
(*                                                                         *)
(* TLC integers have 32 bits, so the 53-bit significand of an f64 is kept  *)
(* as a natural number in limbs: a sequence of digits to the base          *)
(* LimbBase, least significant first, without leading zero digits; the     *)
(* number zero is << >>.  An f64 is the record [sg, m, e] with the value   *)
(* sg * m * 2^e, where m has exactly MantissaBits bits, or m = << >> for   *)
(* 0.0.  Infinities, NaN, subnormals and the sign of zero are not          *)
(* represented.                                                            *)

LimbBits == 15
LimbBase == 2^15
\* The significand of an f64 has 53 bits.
MantissaBits == 53

RECURSIVE BigTrim(_)
\* a without its leading (most significant) zero digits.
BigTrim(a) ==
    IF a = << >> THEN << >>
    ELSE IF a[Len(a)] = 0 THEN BigTrim(SubSeq(a, 1, Len(a) - 1))
    ELSE a

RECURSIVE BigFromNat(_)
\* The limbs of the natural number n.
BigFromNat(n) ==
    IF n = 0 THEN << >> ELSE << n % LimbBase >> \o BigFromNat(n \div LimbBase)

RECURSIVE BigToNat(_)
\* The natural number of the limbs a (which must fit a TLC integer).
BigToNat(a) ==
    IF a = << >> THEN 0 ELSE a[1] + LimbBase * BigToNat(Tail(a))

RECURSIVE BigCmpAt(_, _, _)
BigCmpAt(a, b, i) ==
    IF i = 0 THEN 0
    ELSE IF a[i] < b[i] THEN -1
    ELSE IF a[i] > b[i] THEN 1
    ELSE BigCmpAt(a, b, i - 1)

\* -1, 0 or 1 as a is less than, equal to or greater than b.
BigCmp(a, b) ==
    IF Len(a) < Len(b) THEN -1
    ELSE IF Len(a) > Len(b) THEN 1
    ELSE BigCmpAt(a, b, Len(a))

RECURSIVE BigAddAt(_, _, _, _)
BigAddAt(a, b, i, carry) ==
    IF i > Len(a) /\ i > Len(b)
    THEN IF carry = 0 THEN << >> ELSE << carry >>
    ELSE LET t == (IF i <= Len(a) THEN a[i] ELSE 0)
                  + (IF i <= Len(b) THEN b[i] ELSE 0) + carry
         IN  << t % LimbBase >> \o BigAddAt(a, b, i + 1, t \div LimbBase)

\* a + b
BigAdd(a, b) == BigAddAt(a, b, 1, 0)

RECURSIVE BigSubAt(_, _, _, _)
BigSubAt(a, b, i, borrow) ==
    IF i > Len(a) THEN << >>
    ELSE LET t == a[i] - (IF i <= Len(b) THEN b[i] ELSE 0) - borrow
         IN  IF t < 0
             THEN << t + LimbBase >> \o BigSubAt(a, b, i + 1, 1)
             ELSE << t >> \o BigSubAt(a, b, i + 1, 0)

\* a - b, for a >= b
BigSub(a, b) == BigTrim(BigSubAt(a, b, 1, 0))

RECURSIVE BigMulAt(_, _, _, _)
BigMulAt(a, d, i, carry) ==
    IF i > Len(a) THEN (IF carry = 0 THEN << >> ELSE << carry >>)
    ELSE LET t == a[i] * d + carry
         IN  << t % LimbBase >> \o BigMulAt(a, d, i + 1, t \div LimbBase)

\* a * d, for 0 <= d <= LimbBase
BigMulSmall(a, d) == IF d = 0 THEN << >> ELSE BigMulAt(a, d, 1, 0)

RECURSIVE BigDivAt(_, _, _, _)
\* Long division from digit i down: [q, r] with the quotient digits below i.
BigDivAt(a, d, i, rem) ==
    IF i = 0 THEN [q |-> << >>, r |-> rem]
    ELSE LET t == rem * LimbBase + a[i]
             rest == BigDivAt(a, d, i - 1, t % d)
         IN  [q |-> Append(rest.q, t \div d), r |-> rest.r]

\* [q, r]: the quotient (limbs) and the remainder (integer) of a by d,
\* for 0 < d <= LimbBase.
BigDivSmall(a, d) ==
    LET dv == BigDivAt(a, d, Len(a), 0)
    IN  [q |-> BigTrim(dv.q), r |-> dv.r]

\* a * 2^k, k >= 0
BigShl(a, k) ==
    IF a = << >> THEN << >>
    ELSE [i \in 1..(k \div LimbBits) |-> 0] \o BigMulSmall(a, 2^(k % LimbBits))

\* [q, exact]: floor(a / 2^k) and whether no 1 bit was shifted out, k >= 0.
BigShr(a, k) ==
    LET n == k \div LimbBits
    IN  IF n >= Len(a) THEN [q |-> << >>, exact |-> a = << >>]
        ELSE LET d == BigDivSmall(SubSeq(a, n + 1, Len(a)), 2^(k % LimbBits))
             IN  [q |-> d.q,
                  exact |-> d.r = 0 /\ \A i \in 1..n : a[i] = 0]

RECURSIVE SmallBitLen(_)
SmallBitLen(n) == IF n = 0 THEN 0 ELSE 1 + SmallBitLen(n \div 2)

\* The number of bits of a (0 for zero).
BigBitLen(a) ==
    IF a = << >> THEN 0 ELSE (Len(a) - 1) * LimbBits + SmallBitLen(a[Len(a)])

\* The quotient digit estimated from the top digits of cur and d; it is at
\* most 2 too large when the top digit of d is at least LimbBase / 2.
BigDivEst(cur, n, dtop) ==
    LET top == IF Len(cur) > n THEN cur[n + 1] * LimbBase + cur[n]
               ELSE IF Len(cur) = n THEN cur[n]
               ELSE 0
    IN  IF top \div dtop < LimbBase - 1 THEN top \div dtop ELSE LimbBase - 1

RECURSIVE BigDivFix(_, _, _, _)
\* The estimate est, with p = d * est, lowered until p <= cur:
\* [digit, r] with cur = d * digit + r and r < d.
BigDivFix(cur, d, est, p) ==
    IF BigCmp(p, cur) <= 0 THEN [digit |-> est, r |-> BigSub(cur, p)]
    ELSE BigDivFix(cur, d, est - 1, BigSub(p, d))

\* The multiple d * est that goes with the estimate est.
BigDivTry(cur, d, est) == BigDivFix(cur, d, est, BigMulSmall(d, est))

\* One step of long division to the base LimbBase: the quotient digit of
\* cur by d and what remains, where cur < LimbBase * d.
BigDivDigit(cur, d) == BigDivTry(cur, d, BigDivEst(cur, Len(d), d[Len(d)]))

RECURSIVE BigDivAtBig(_, _, _, _, _)
RECURSIVE BigDivNext(_, _, _, _, _)
\* Long division of the digits i, i - 1, ..., 1 of a by d: rem is the
\* remainder carried in and quot the quotient digits found so far.
BigDivAtBig(a, d, i, rem, quot) ==
    IF i = 0 THEN [q |-> quot, r |-> rem]
    ELSE BigDivNext(a, d, i, BigDivDigit(BigTrim(<< a[i] >> \o rem), d), quot)

\* The step st = [digit, r] of digit i is taken and the division goes on.
BigDivNext(a, d, i, st, quot) ==
    IF st.digit \in 0..(LimbBase - 1)
    THEN BigDivAtBig(a, d, i - 1, st.r, << st.digit >> \o quot)
    ELSE [q |-> << >>, r |-> st.r]

\* dv with its quotient trimmed.
BigDivTrim(dv) == [q |-> BigTrim(dv.q), r |-> dv.r]

\* [q, r]: quotient and remainder (limbs) of a by d, where Len(a) >= Len(d)
\* and the top digit of d is at least LimbBase / 2.  The top Len(d) - 1
\* digits of a are below d and start the remainder.
BigDiv(a, d) ==
    BigDivTrim(BigDivAtBig(a, d, Len(a) - Len(d) + 1,
                           SubSeq(a, Len(a) - Len(d) + 2, Len(a)), << >>))

F64Zero == [sg |-> 1, m |-> << >>, e |-> 0]

\* sg * m * 2^e for a rounded mantissa m: rounding up may have carried into
\* bit MantissaBits + 1, and then m is a power of two.
F64Carry(sg, m, e) ==
    IF BigBitLen(m) > MantissaBits
    THEN [sg |-> sg, m |-> BigDivSmall(m, 2).q, e |-> e + 1]
    ELSE [sg |-> sg, m |-> m, e |-> e]

\* half = [q, r]: the MantissaBits bits q and the round bit r below them;
\* sticky: some bit below the round bit is 1.  To nearest, ties to even.
F64RoundBit(sg, half, e, sticky) ==
    IF half.r = 1 /\ (sticky \/ half.q[1] % 2 = 1)
    THEN F64Carry(sg, BigAdd(half.q, << 1 >>), e)
    ELSE [sg |-> sg, m |-> half.q, e |-> e]

\* cut = [q, exact]: the top MantissaBits + 1 bits and whether the bits cut
\* off were all 0.
F64RoundCut(sg, cut, e, sticky) ==
    F64RoundBit(sg, BigDivSmall(cut.q, 2), e, sticky \/ ~cut.exact)

\* F64Round for a mantissa m # 0 of len bits.
F64RoundLen(sg, m, e, sticky, len) ==
    IF len <= MantissaBits
    THEN [sg |-> sg, m |-> BigShl(m, MantissaBits - len),
          e |-> e - (MantissaBits - len)]
    ELSE F64RoundCut(sg, BigShr(m, len - MantissaBits - 1),
                     e + (len - MantissaBits), sticky)

\* The f64 nearest to sg * (m + f) * 2^e, where 0 <= f < 1 and sticky says
\* whether f > 0; with sticky, m has more than MantissaBits + 1 bits.
F64Round(sg, m, e, sticky) ==
    IF m = << >> THEN F64Zero ELSE F64RoundLen(sg, m, e, sticky, BigBitLen(m))

\* n as f64 (i32 as f64, usize as f64, or an integral literal)
F64FromInt(n) ==
    F64Round(IF n < 0 THEN -1 ELSE 1, BigFromNat(IF n < 0 THEN -n ELSE n), 0, FALSE)

F64Neg(a) == IF a.m = << >> THEN a ELSE [a EXCEPT !.sg = -a.sg]

\* f64::abs
F64Abs(a) == [a EXCEPT !.sg = 1]

\* -1, 0 or 1 as |a| is less than, equal to or greater than |b|.
F64MagCmp(a, b) ==
    IF a.m = << >> THEN (IF b.m = << >> THEN 0 ELSE -1)
    ELSE IF b.m = << >> THEN 1
    ELSE IF a.e < b.e THEN -1
    ELSE IF a.e > b.e THEN 1
    ELSE BigCmp(a.m, b.m)

\* partial_cmp: -1, 0 or 1 as a is less than, equal to or greater than b.
F64Cmp(a, b) ==
    IF a.m = << >> /\ b.m = << >> THEN 0
    ELSE IF a.m = << >> THEN -b.sg
    ELSE IF b.m = << >> THEN a.sg
    ELSE IF a.sg # b.sg THEN a.sg
    ELSE a.sg * F64MagCmp(a, b)

F64Lt(a, b) == F64Cmp(a, b) < 0
F64Le(a, b) == F64Cmp(a, b) <= 0

\* [sg, m]: sa * ma + sb * mb as a sign and a magnitude (limbs).
SignedAdd(sa, ma, sb, mb) ==
    IF sa = sb THEN [sg |-> sa, m |-> BigAdd(ma, mb)]
    ELSE IF BigCmp(ma, mb) >= 0 THEN [sg |-> sa, m |-> BigSub(ma, mb)]
    ELSE [sg |-> sb, m |-> BigSub(mb, ma)]

\* The f64 nearest to sm.sg * sm.m * 2^e.
F64RoundSigned(sm, e) == F64Round(sm.sg, sm.m, e, FALSE)

\* a + b for a, b # 0 whose exponents are at least lo, the smaller of them.
F64AddAt(a, b, lo) ==
    F64RoundSigned(SignedAdd(a.sg, BigShl(a.m, a.e - lo),
                             b.sg, BigShl(b.m, b.e - lo)), lo)

\* a + b
F64Add(a, b) ==
    IF a.m = << >> THEN b
    ELSE IF b.m = << >> THEN a
    ELSE IF a.e - b.e > MantissaBits + 3 THEN a
    ELSE IF b.e - a.e > MantissaBits + 3 THEN b
    ELSE F64AddAt(a, b, IF a.e < b.e THEN a.e ELSE b.e)

\* a - b
F64Sub(a, b) == F64Add(a, F64Neg(b))

\* a * (k / 2^sh) for a small natural k: a * 1.5 is F64MulSmall(a, 3, 1).
F64MulSmall(a, k, sh) == F64Round(a.sg, BigMulSmall(a.m, k), a.e - sh, FALSE)

\* The f64 nearest to sg * (dv.q + f) * 2^e, f > 0 iff the remainder is not 0.
F64RoundQuot(sg, dv, e) == F64Round(sg, dv.q, e, dv.r # 0)
F64RoundQuotBig(sg, dv, e) == F64Round(sg, dv.q, e, dv.r # << >>)

\* a / d for an integral divisor 0 < d <= LimbBase (count as f64, 10.0)
F64DivSmall(a, d) ==
    F64RoundQuot(a.sg, BigDivSmall(BigShl(a.m, 2 * LimbBits), d), a.e - 2 * LimbBits)

\* a / b, b # 0: the mantissa of b is shifted to fill 4 limbs, that of a by
\* 5 limbs, so that the quotient has more than MantissaBits + 1 bits.
F64Div(a, b) ==
    IF a.m = << >> THEN F64Zero
    ELSE F64RoundQuotBig(a.sg * b.sg,
                         BigDiv(BigShl(a.m, 5 * LimbBits),
                                BigShl(b.m, 4 * LimbBits - MantissaBits)),
                         a.e - b.e - (LimbBits + MantissaBits))

\* f64::max, f64::min
F64Max(a, b) == IF F64Lt(a, b) THEN b ELSE a
F64Min(a, b) == IF F64Lt(b, a) THEN b ELSE a

\* The floor of sg * (cut.q + f), f > 0 iff not cut.exact.
F64FloorCut(sg, cut) ==
    IF sg = 1 THEN BigToNat(cut.q)
    ELSE IF cut.exact THEN -BigToNat(cut.q)
    ELSE -(BigToNat(cut.q) + 1)

\* a.floor() as i32 (for values an i32 holds)
F64Floor(a) ==
    IF a.m = << >> THEN 0
    ELSE IF a.e >= 0 THEN a.sg * BigToNat(BigShl(a.m, a.e))
    ELSE F64FloorCut(a.sg, BigShr(a.m, -a.e))

\* a.round() as i64: to the nearest integer, halves away from zero.
F64RoundInt(a) ==
    IF a.m = << >> THEN 0
    ELSE IF a.e >= 0 THEN a.sg * BigToNat(BigShl(a.m, a.e))
    ELSE a.sg * ((BigToNat(BigShr(a.m, -a.e - 1).q) + 1) \div 2)

----------------------------------------------------------------------------
(* PRIORITY 1: LAYOUT ENGINE (lib.rs 31..248)                              *)
(*                                                                         *)
(* Coordinates, sizes and the threshold are f64, as in the source: a rect, *)
(* a query and a SnapResult hold f64 values, and every sum, difference,    *)
(* halving, quotient and comparison below is the f64 operation.  Cell      *)
(* coordinates (i32) and rect indices (usize) are integers.                *)

SimpleRect(x, y, w, h) == [x |-> x, y |-> y, w |-> w, h |-> h]

\* LayoutEngine::new sets cell_size: 100.0.
DefaultCellSize == 100
\* The clamp of the cell-size heuristic: .max(50.0).min(500.0).
MinCellSize == 50
MaxCellSize == 500

RECURSIVE SumDims(_, _, _)
\* self.rects.iter().map(|r| r.w + r.h).sum(): acc is the sum of the rects
\* before k, the rects from k on are added to it in order.
SumDims(rs, k, acc) ==
    IF k > Len(rs) THEN acc
    ELSE SumDims(rs, k + 1, F64Add(acc, F64Add(rs[k].w, rs[k].h)))

\* update_rects, cell-size heuristic: if count > 0,
\*   avg_dim = total_dim / (count as f64 * 2.0)
\*   cell_size = (avg_dim * 1.5).max(50.0).min(500.0)
\* else the cell_size the engine already has.
new_cell_size(rs, old) ==
    IF Len(rs) > 0
    THEN LET total_dim == SumDims(rs, 1, F64Zero)
             avg_dim == F64DivSmall(total_dim, Len(rs) * 2)
         IN  F64Min(F64Max(F64MulSmall(avg_dim, 3, 1), F64FromInt(MinCellSize)),
                    F64FromInt(MaxCellSize))
    ELSE old

\* (v / self.cell_size).floor() as i32
cell_of(v, cs) == F64Floor(F64Div(v, cs))

\* The cells gx_min..=gx_max x gy_min..=gy_max in the order of the loops
\* "for gx in gx_min..=gx_max { for gy in gy_min..=gy_max".
cell_box(gx_min, gx_max, gy_min, gy_max) ==
    LET nx == IF gx_max >= gx_min THEN gx_max - gx_min + 1 ELSE 0
        ny == IF gy_max >= gy_min THEN gy_max - gy_min + 1 ELSE 0
    IN  [k \in 1..(nx * ny) |->
            << gx_min + ((k - 1) \div ny), gy_min + ((k - 1) % ny) >>]

\* The cells a box [x0, x1] x [y0, y1] overlaps.
cells_of(x0, x1, y0, y1, cs) ==
    cell_box(cell_of(x0, cs), cell_of(x1, cs), cell_of(y0, cs), cell_of(y1, cs))

rect_cells_min_only(r, cs) == cells_of(r.x, r.x, r.y, r.y, cs)
\* The cells rect r is bucketed into by update_rects.
rect_cells(r, cs) == cells_of(r.x, F64Add(r.x, r.w), r.y, F64Add(r.y, r.h), cs)

SeqRange(s) == { s[i] : i \in 1..Len(s) }

\* self.grid.entry((gx, gy)).or_default().push(idx) for every cell of `cells`.
grid_push(g, cells, idx) ==
    [c \in DOMAIN g \cup SeqRange(cells) |->
        IF c \in SeqRange(cells)
        THEN Append(IF c \in DOMAIN g THEN g[c] ELSE << >>, idx)
        ELSE g[c]]

RECURSIVE build_grid(_, _, _, _)
\* update_rects, rebuild loop: rects k.. are bucketed into g (idx = k - 1).
build_grid(rs, cs, k, g) ==
    IF k > Len(rs) THEN g
    ELSE build_grid(rs, cs, k + 1, grid_push(g, rect_cells(rs[k], cs), k - 1))

\* HashMap::new() / self.grid.clear()
EmptyGrid == [c \in {} |-> << >>]

\* self.grid.get(&(gx, gy)): the bucket, or nothing.
bucket(g, c) == IF c \in DOMAIN g THEN g[c] ELSE << >>

RECURSIVE scan_bucket_no_dedup(_, _, _)
scan_bucket_no_dedup(indices, k, acc) ==
    IF k > Len(indices) THEN acc
    ELSE scan_bucket_no_dedup(indices, k + 1,
            [seen |-> acc.seen \cup {indices[k]},
             candidates |-> Append(acc.candidates, indices[k])])
RECURSIVE scan_bucket(_, _, _)
\* "for &idx in indices { if seen.insert(idx) { candidates.push(idx); } }"
scan_bucket(indices, k, acc) ==
    IF k > Len(indices) THEN acc
    ELSE scan_bucket(indices, k + 1,
            IF indices[k] \notin acc.seen
            THEN [seen |-> acc.seen \cup {indices[k]},
                  candidates |-> Append(acc.candidates, indices[k])]
            ELSE acc)

RECURSIVE scan_cells(_, _, _, _)
\* query_snapping, candidate collection over the covered cells k.. .
scan_cells(g, cells, k, acc) ==
    IF k > Len(cells) THEN acc
    ELSE scan_cells(g, cells, k + 1, scan_bucket(bucket(g, cells[k]), 1, acc))

\* The covered cells of a query: the bounding box expanded by threshold.
query_cells(cs, current_x, current_y, width, height, threshold) ==
    cells_of(F64Sub(current_x, threshold),
             F64Add(F64Add(current_x, width), threshold),
             F64Sub(current_y, threshold),
             F64Add(F64Add(current_y, height), threshold), cs)

collect_candidates(g, cs, current_x, current_y, width, height, threshold) ==
    scan_cells(g, query_cells(cs, current_x, current_y, width, height, threshold),
               1, [seen |-> {}, candidates |-> << >>]).candidates

\* The nine (target, sibling) pairs of the target points t1, t2, t3 (left,
\* center, right or top, middle, bottom) and the sibling points s1, s2, s3,
\* in the order of x_points / y_points.
point_pairs(t1, t2, t3, s1, s2, s3) ==
    << << t1, s1 >>, << t1, s2 >>, << t1, s3 >>,
       << t2, s1 >>, << t2, s2 >>, << t2, s3 >>,
       << t3, s1 >>, << t3, s2 >>, << t3, s3 >> >>

\* x_points / y_points for the position and size of the dragged rect and of
\* the sibling on one axis: new_x, new_x + width / 2.0, new_x + width against
\* sib.x, sib.x + sib.w / 2.0, sib.x + sib.w.
points(new_p, size, sib_p, sib_size) ==
    point_pairs(new_p,
                F64Add(new_p, F64DivSmall(size, 2)),
                F64Add(new_p, size),
                sib_p,
                F64Add(sib_p, F64DivSmall(sib_size, 2)),
                F64Add(sib_p, sib_size))

\* The pairs of pts that pass "(t - s).abs() < threshold".
matching(pts, threshold) ==
    { p \in 1..Len(pts) : F64Lt(F64Abs(F64Sub(pts[p][1], pts[p][2])), threshold) }

\* The least of the pair numbers hits, 0 if there is none.
first_of(hits) ==
    IF hits = {} THEN 0 ELSE CHOOSE p \in hits : \A o \in hits : p <= o

first_match_closest(pts, threshold) ==
    LET hits == matching(pts, threshold)
        gap(p) == F64Abs(F64Sub(pts[p][1], pts[p][2]))
    IN  IF hits = {} THEN 0
        ELSE CHOOSE p \in hits :
                \A o \in hits : F64Lt(gap(p), gap(o)) \/ (gap(p) = gap(o) /\ p <= o)
\* "for (t, s) in points.iter() { if (t - s).abs() < threshold { ...; break; } }":
\* the first pair that passes, 0 if none does.
first_match(pts, threshold) == first_of(matching(pts, threshold))

\* "new_x += s - t": what the snap adds to the coordinate.
snap_delta(t, s) == F64Sub(s, t)

Guide(orientation, pos, start, end) ==
    [orientation |-> orientation, pos |-> pos, start |-> start, end |-> end,
     guide_type |-> "align"]

\* The X-axis block of the candidate loop once the pairs pts are formed and
\* p is the first pair below threshold (0: none): "new_x += s - t", the flag
\* and the guide.  hit_x records which candidate and which pair snapped.
snap_x_pair(st, idx, sib, height, pts, p) ==
    IF st.snapped_x \/ p = 0 THEN st
    ELSE [st EXCEPT
            !.new_x = F64Add(st.new_x, snap_delta(pts[p][1], pts[p][2])),
            !.snapped_x = TRUE,
            !.hit_x = << idx, p >>,
            !.guides = Append(st.guides,
                Guide("vertical", pts[p][2],
                      F64Min(st.new_y, sib.y),
                      F64Max(F64Add(st.new_y, height), F64Add(sib.y, sib.h))))]

\* The X-axis block with its pairs pts.
snap_x_over(st, idx, sib, height, pts, threshold) ==
    snap_x_pair(st, idx, sib, height, pts, first_match(pts, threshold))

\* The X-axis block of the candidate loop, for candidate idx (sibling sib).
snap_x(st, idx, sib, width, height, threshold) ==
    snap_x_over(st, idx, sib, height, points(st.new_x, width, sib.x, sib.w), threshold)

\* The Y-axis block once the pairs are formed and the first match is known.
snap_y_pair(st, idx, sib, width, pts, p) ==
    IF st.snapped_y \/ p = 0 THEN st
    ELSE [st EXCEPT
            !.new_y = F64Add(st.new_y, snap_delta(pts[p][1], pts[p][2])),
            !.snapped_y = TRUE,
            !.hit_y = << idx, p >>,
            !.guides = Append(st.guides,
                Guide("horizontal", pts[p][2],
                      F64Min(st.new_x, sib.x),
                      F64Max(F64Add(st.new_x, width), F64Add(sib.x, sib.w))))]

\* The Y-axis block with its pairs pts.
snap_y_over(st, idx, sib, width, pts, threshold) ==
    snap_y_pair(st, idx, sib, width, pts, first_match(pts, threshold))

\* The Y-axis block of the candidate loop.
snap_y(st, idx, sib, width, height, threshold) ==
    snap_y_over(st, idx, sib, width, points(st.new_y, height, sib.y, sib.h), threshold)

RECURSIVE snap_loop(_, _, _, _, _, _, _)
RECURSIVE snap_next(_, _, _, _, _, _, _)
\* "for idx in candidates { ... }", from candidate k on: the X block, then
\* the Y block.
snap_loop(rs, candidates, k, st, width, height, threshold) ==
    IF k > Len(candidates) THEN st
    ELSE snap_next(rs, candidates, k,
                   snap_y(snap_x(st, candidates[k], rs[candidates[k] + 1],
                                 width, height, threshold),
                          candidates[k], rs[candidates[k] + 1],
                          width, height, threshold),
                   width, height, threshold)

\* "if snapped_x && snapped_y { break; }" after candidate k, else on to the
\* next candidate.
snap_next(rs, candidates, k, st, width, height, threshold) ==
    IF st.snapped_x /\ st.snapped_y THEN st
    ELSE snap_loop(rs, candidates, k + 1, st, width, height, threshold)

\* The locals of query_snapping before the candidate loop.
snap_start(current_x, current_y) ==
    [new_x |-> current_x, new_y |-> current_y,
     snapped_x |-> FALSE, snapped_y |-> FALSE,
     hit_x |-> << >>, hit_y |-> << >>, guides |-> << >>]

\* The SnapResult (x, y, guides) of the locals st after the loop, together
\* with the candidate list and the winning (candidate, pair) of each axis.
snap_result(candidates, st) ==
    [x |-> st.new_x, y |-> st.new_y, guides |-> st.guides,
     candidates |-> candidates, hit_x |-> st.hit_x, hit_y |-> st.hit_y]

\* query_snapping after candidate collection.
snap_candidates(rs, candidates, current_x, current_y, width, height, threshold) ==
    snap_result(candidates,
                snap_loop(rs, candidates, 1, snap_start(current_x, current_y),
                          width, height, threshold))

\* LayoutEngine::query_snapping
query_snapping(rs, g, cs, current_x, current_y, width, height, threshold) ==
    snap_candidates(rs,
                    collect_candidates(g, cs, current_x, current_y,
                                       width, height, threshold),
                    current_x, current_y, width, height, threshold)

\* The SnapResult proper: what crosses to the caller.
SnapResult(r) == [x |-> r.x, y |-> r.y, guides |-> r.guides]

----------------------------------------------------------------------------
(* The LayoutEngine as a state machine.                                    *)

\* The f64 a caller passes for a whole number of pixels, and for the decimal
\* t / 10 (the JavaScript number nearest to it).
Px(n) == F64FromInt(n)
Tenths(t) == F64DivSmall(F64FromInt(t), 10)

PxRect(x, y, w, h) == SimpleRect(Px(x), Px(y), Px(w), Px(h))

\* The sibling rects a caller pushes: two 100 x 100 siblings in a row, one
\* below and between them, and a 6 x 6 icon.
RectPool ==
    { PxRect(0, 0, 100, 100), PxRect(200, 0, 100, 100),
      PxRect(100, 100, 100, 100), PxRect(0, 0, 6, 6) }

\* The lists pushed: up to MaxRects different siblings of the pool, in any
\* order.
RectLists ==
    { rs \in UNION { [1..n -> RectPool] : n \in 0..MaxRects } :
        \A i, j \in 1..Len(rs) : rs[i] = rs[j] => i = j }

\* The queries explored: positions (two on whole pixels, one between
\* pixels at 216.1), sizes (width, height) and thresholds.
QueryXs == { Px(-2), Px(7), Tenths(2161) }
QueryYs == { Px(-2), Px(96) }
QuerySizes == { << Px(100), Px(100) >>, << Px(40), Px(20) >> }
Thresholds == { Px(5), Px(10) }

NoQuery == [x |-> F64Zero, y |-> F64Zero, width |-> F64Zero, height |-> F64Zero,
            threshold |-> F64Zero]
NoResult == [x |-> F64Zero, y |-> F64Zero, guides |-> << >>, candidates |-> << >>,
             hit_x |-> << >>, hit_y |-> << >>]

\* LayoutEngine::new()
InitLayout ==
    /\ rects = << >>
    /\ grid = EmptyGrid
    /\ cell_size = F64FromInt(DefaultCellSize)
    /\ lop = "new"
    /\ q = NoQuery
    /\ res = NoResult

\* update_rects(rects_val) with a well-formed rect list.
UpdateRects ==
    \E rs \in RectLists :
        LET cs == new_cell_size(rs, cell_size)
        IN  /\ rects' = rs
            /\ cell_size' = cs
            /\ grid' = build_grid(rs, cs, 1, EmptyGrid)
            /\ lop' = "update_rects"
            /\ q' = NoQuery
            /\ res' = NoResult
            /\ UNCHANGED << hvars, gvars >>

\* update_rects(rects_val) with a value serde rejects: Err before any field
\* is assigned.
UpdateRectsMalformed ==
    /\ lop' = "update_rects_err"
    /\ q' = NoQuery
    /\ res' = NoResult
    /\ UNCHANGED << rects, grid, cell_size, hvars, gvars >>

\* query_snapping(current_x, current_y, width, height, threshold)
QuerySnapping ==
    \E x \in QueryXs, y \in QueryYs, size \in QuerySizes, threshold \in Thresholds :
        /\ q' = [x |-> x, y |-> y, width |-> size[1], height |-> size[2],
                 threshold |-> threshold]
        /\ res' = query_snapping(rects, grid, cell_size, x, y, size[1], size[2],
                                 threshold)
        /\ lop' = "query_snapping"
        /\ UNCHANGED << rects, grid, cell_size, hvars, gvars >>

NextLayout == UpdateRects \/ UpdateRectsMalformed \/ QuerySnapping

----------------------------------------------------------------------------
(* PRIORITY 6: RESPONSIVE GRID CONVERTER (lib.rs 600..851)                 *)
(*                                                                         *)
(* Coordinates are f64 canvas pixels.  A node of nodes_json is written     *)
(* with one decimal digit, and the model holds such a number as its count  *)
(* of tenths (3.9 is 39); parsing turns it into the nearest f64, and       *)
(* everything after that is f64 arithmetic.  Track sizes, which the code   *)
(* rounds to whole pixels, are integers.                                   *)

\* const SNAP_TOL: f64 = 4.0
SNAP_TOL == 4

\* A node as nodes_json spells it: x, y, w, h in tenths of a pixel.
GridInputNode(id, x, y, w, h) == [id |-> id, x |-> x, y |-> y, w |-> w, h |-> h]

\* serde_json reading a number with one decimal digit: the nearest f64.
parse_f64(tenths) == F64DivSmall(F64FromInt(tenths), 10)

\* serde_json::from_str for one node: struct GridInputNode with f64 fields.
parse_node(n) ==
    [id |-> n.id, x |-> parse_f64(n.x), y |-> parse_f64(n.y),
     w |-> parse_f64(n.w), h |-> parse_f64(n.h)]

RECURSIVE insert_sorted(_, _)
\* v put into the ascending sequence s, after the elements equal to it.
insert_sorted(s, v) ==
    IF s = << >> THEN << v >>
    ELSE IF F64Lt(v, s[1]) THEN << v >> \o s
    ELSE << s[1] >> \o insert_sorted(Tail(s), v)

sort_coords_unsorted(coords) == coords
RECURSIVE sort_coords(_)
\* coords.sort_by(|a, b| a.partial_cmp(b)...): ascending, stable.
sort_coords(coords) ==
    IF coords = << >> THEN << >>
    ELSE insert_sorted(sort_coords(SubSeq(coords, 1, Len(coords) - 1)),
                       coords[Len(coords)])

within_tol_exclusive(val, group_sum, group_count) ==
    F64Lt(F64Abs(F64Sub(val, F64DivSmall(group_sum, group_count))),
          F64FromInt(SNAP_TOL))
\* "group_mean = group_sum / group_count as f64;
\*  (val - group_mean).abs() <= SNAP_TOL"
within_tol(val, group_sum, group_count) ==
    LET group_mean == F64DivSmall(group_sum, group_count)
    IN  F64Le(F64Abs(F64Sub(val, group_mean)), F64FromInt(SNAP_TOL))

RECURSIVE dedup_walk(_, _, _, _, _)
\* dedup_coords, the loop "for &val in &coords[1..]" from position k on, and
\* the final push.  Each pushed line comes with the size of its group.
dedup_walk(coords, k, group_sum, group_count, result) ==
    LET sealed == [line |-> F64DivSmall(group_sum, group_count),
                   count |-> group_count]
    IN  IF k > Len(coords) THEN Append(result, sealed)
        ELSE IF within_tol(coords[k], group_sum, group_count)
             THEN dedup_walk(coords, k + 1, F64Add(group_sum, coords[k]),
                             group_count + 1, result)
             ELSE dedup_walk(coords, k + 1, coords[k], 1, Append(result, sealed))

\* dedup_coords with the size of every group: [line, count] per line.
dedup_groups(coords) ==
    IF coords = << >> THEN << >>
    ELSE LET sorted == sort_coords(coords)
         IN  dedup_walk(sorted, 2, sorted[1], 1, << >>)

\* The lines of the groups.
lines_of(groups) == [i \in 1..Len(groups) |-> groups[i].line]

\* dedup_coords: the canonical lines, ascending.
dedup_coords(coords) == lines_of(dedup_groups(coords))

\* (line - target).abs() for every line.
distances(breaks, target) ==
    [i \in 1..Len(breaks) |-> F64Abs(F64Sub(breaks[i], target))]

RECURSIVE max_by_at(_, _, _)
max_by_at(d, i, best) ==
    IF i > Len(d) THEN best
    ELSE max_by_at(d, i + 1, IF F64Lt(d[best], d[i]) THEN i ELSE best)

RECURSIVE min_by_at(_, _, _)
\* Iterator::min_by from position i on: best stays unless d[i] is less.
min_by_at(d, i, best) ==
    IF i > Len(d) THEN best
    ELSE min_by_at(d, i + 1, IF F64Lt(d[i], d[best]) THEN i ELSE best)

find_coord_idx_farthest(breaks, target) ==
    IF breaks = << >> THEN 0
    ELSE max_by_at(distances(breaks, target), 2, 1) - 1
\* find_coord_idx: the 0-based index of the line nearest to target, the first
\* of them on ties (Iterator::min_by), 0 for no lines.
find_coord_idx(breaks, target) ==
    IF breaks = << >> THEN 0
    ELSE min_by_at(distances(breaks, target), 2, 1) - 1

\* .max(1.0) on whole numbers of pixels.
MaxOf(a, b) == IF a > b THEN a ELSE b

\* "(w[1] - w[0]).round().max(1.0)" for two consecutive lines: whole pixels.
track_size(lo, hi) == MaxOf(F64RoundInt(F64Sub(hi, lo)), 1)

\* breaks.windows(2).map(..).collect()
track_sizes(breaks) ==
    [i \in 1..(IF Len(breaks) >= 2 THEN Len(breaks) - 1 ELSE 0) |->
        track_size(breaks[i], breaks[i + 1])]

\* The template string: one "<n>px" token per track, joined by spaces.
template(sizes) == [i \in 1..Len(sizes) |-> << sizes[i], "px" >>]

degenerate_x_only(x_breaks, y_breaks) == Len(x_breaks) < 2
\* "x_breaks.len() < 2 || y_breaks.len() < 2"
degenerate(x_breaks, y_breaks) == Len(x_breaks) < 2 \/ Len(y_breaks) < 2

\* x_raw / y_raw: the two breakpoints of every (parsed) node, in node order.
x_raw_of(nodes) ==
    [i \in 1..(2 * Len(nodes)) |->
        IF i % 2 = 1 THEN nodes[(i + 1) \div 2].x
        ELSE F64Add(nodes[i \div 2].x, nodes[i \div 2].w)]
y_raw_of(nodes) ==
    [i \in 1..(2 * Len(nodes)) |->
        IF i % 2 = 1 THEN nodes[(i + 1) \div 2].y
        ELSE F64Add(nodes[i \div 2].y, nodes[i \div 2].h)]

GridItem(node, x_breaks, y_breaks) ==
    [id |-> node.id,
     col_start |-> find_coord_idx(x_breaks, node.x) + 1,
     col_end   |-> find_coord_idx(x_breaks, F64Add(node.x, node.w)) + 1,
     row_start |-> find_coord_idx(y_breaks, node.y) + 1,
     row_end   |-> find_coord_idx(y_breaks, F64Add(node.y, node.h)) + 1]

\* An Err(JsValue) result: no layout.
GridErr(msg, x_breaks, y_breaks) ==
    [ok |-> FALSE, err |-> msg,
     template_columns |-> << >>, template_rows |-> << >>,
     col_widths_px |-> << >>, row_heights_px |-> << >>, items |-> << >>,
     x_breaks |-> x_breaks, y_breaks |-> y_breaks]

\* Steps 3 to 6: the GridLayout for the canonical lines, or the error of the
\* guard "need at least 2 lines per axis".
grid_of_breaks(nodes, x_breaks, y_breaks) ==
    IF degenerate(x_breaks, y_breaks)
    THEN GridErr("Degenerate layout", x_breaks, y_breaks)
    ELSE [ok |-> TRUE, err |-> "",
          template_columns |-> template(track_sizes(x_breaks)),
          template_rows |-> template(track_sizes(y_breaks)),
          col_widths_px |-> track_sizes(x_breaks),
          row_heights_px |-> track_sizes(y_breaks),
          items |-> [i \in 1..Len(nodes) |-> GridItem(nodes[i], x_breaks, y_breaks)],
          x_breaks |-> x_breaks, y_breaks |-> y_breaks]

\* Steps 1 and 2 for the parsed nodes, then the rest.
grid_of_nodes(nodes) ==
    grid_of_breaks(nodes, dedup_coords(x_raw_of(nodes)), dedup_coords(y_raw_of(nodes)))

\* serde_json::from_str::<Vec<GridInputNode>> of a text that parses.
parse_nodes(nodes) == [i \in 1..Len(nodes) |-> parse_node(nodes[i])]

\* absolute_to_grid: the GridLayout or the error, together with the
\* canonical lines the call computed.
absolute_to_grid(input) ==
    IF ~input.parsed THEN GridErr("Parse error", << >>, << >>)
    ELSE IF input.nodes = << >> THEN GridErr("No nodes provided", << >>, << >>)
    ELSE grid_of_nodes(parse_nodes(input.nodes))

----------------------------------------------------------------------------
(* absolute_to_grid as a state machine: one call on a drawn input.         *)

\* The nodes a caller submits, in tenths of a pixel: two 100 px cards at
\* x = 0 and 102; nodes 3.9, 4 and 4.1 px wide at x = 0; a 2 px high strip; a
\* node at negative x with fractional sizes; two narrow overlapping nodes; a
\* 4 px wide node at x = 4.3, whose right edge 4.3 + 4 is more than 4 from
\* 4.3 in f64; a 7.5 px wide node at x = 0.7, whose width comes out as
\* 7.499999999999999 in f64.
NodePool ==
    { GridInputNode("a", 0, 0, 1000, 1000),
      GridInputNode("b", 1020, 0, 1000, 1000),
      GridInputNode("d", 0, 0, 39, 1000),
      GridInputNode("e", 0, 0, 40, 1000),
      GridInputNode("f", 0, 0, 41, 1000),
      GridInputNode("h", 0, 20, 1000, 20),
      GridInputNode("i", -50, 30, 107, 66),
      GridInputNode("j", 0, 0, 60, 1000),
      GridInputNode("k", 40, 0, 30, 1000),
      GridInputNode("l", 43, 0, 40, 1000),
      GridInputNode("m", 7, 0, 75, 1000) }

NodeLists == UNION { [1..n -> NodePool] : n \in 0..MaxNodes }

\* nodes_json: text serde_json rejects, or the JSON of a node list.
GridInputs ==
    { [parsed |-> FALSE, nodes |-> << >>] }
      \cup { [parsed |-> TRUE, nodes |-> l] : l \in NodeLists }

NoLayout == GridErr("", << >>, << >>)

\* No call of absolute_to_grid is in progress.
InitGridIdle ==
    /\ g_input = [parsed |-> TRUE, nodes |-> << >>]
    /\ g_pc = "idle"
    /\ g_res = NoLayout

\* absolute_to_grid has been entered with some nodes_json.
InitGridCall ==
    /\ g_input \in GridInputs
    /\ g_pc = "call"
    /\ g_res = NoLayout

\* absolute_to_grid(nodes_json, _canvas_width) runs to its return.
AbsoluteToGrid ==
    /\ g_pc = "call"
    /\ g_res' = absolute_to_grid(g_input)
    /\ g_pc' = "done"
    /\ UNCHANGED << g_input, hvars, lvars >>

----------------------------------------------------------------------------
(* The HistoryManager as a state machine.                                  *)

\* The reference history of the specification (section 4.5), on raw payloads:
\* push drops the entries above the cursor, appends, and evicts the oldest
\* entry beyond the capacity; undo / redo move the cursor by one within bounds.
RefPush(r, i, payload) ==
    LET r2 == Append(SubSeq(r, 1, i + 1), payload)
    IN  IF Len(r2) > max_history
        THEN [ref |-> Tail(r2), ref_index |-> Len(r2) - 2]
        ELSE [ref |-> r2, ref_index |-> Len(r2) - 1]
RefUndo(r, i) == IF i > 0 THEN i - 1 ELSE i
RefRedo(r, i) == IF i < Len(r) - 1 THEN i + 1 ELSE i

\* HistoryManager::new(initial)
InitHistory ==
    /\ stack = << compress_state(InitialState, TRUE) >>
    /\ current_index = 0
    /\ op = "new"
    /\ ret = None
    /\ arg = InitialState
    /\ pushes = 0
    /\ undos = 0
    /\ discarded = {}
    /\ io_errors = 0
    /\ ref = << InitialState >>
    /\ ref_index = 0

\* push_state(state), state being the next fresh payload, with the IO outcome
\* io_ok of the compression.
PushWith(io_ok, max_pushes) ==
    /\ pushes < max_pushes
    /\ LET state == pushes + 1
           n == push_state(stack, current_index, compress_state(state, io_ok))
           r == RefPush(ref, ref_index, state)
       IN  /\ stack' = n.stack
           /\ current_index' = n.current_index
           /\ arg' = state
           /\ ref' = r.ref
           /\ ref_index' = r.ref_index
    /\ discarded' = discarded \cup
          { ref[i] : i \in (ref_index + 2)..Len(ref) }
    /\ pushes' = pushes + 1
    /\ io_errors' = IF io_ok THEN io_errors ELSE io_errors + 1
    /\ op' = "push_state"
    /\ ret' = None
    /\ UNCHANGED << undos, lvars, gvars >>

\* Writing into a Vec<u8> cannot fail: compression succeeds.
PushState == PushWith(TRUE, MaxPush)

\* The same call when enc.write_all / enc.finish may report an IO error.
PushStateIo ==
    \E io_ok \in BOOLEAN :
        /\ io_ok \/ io_errors < MaxIoErrors
        /\ PushWith(io_ok, MaxPushFault)

Undo ==
    /\ undos < MaxUndo
    /\ LET n == undo(stack, current_index)
       IN  /\ current_index' = n.current_index
           /\ ret' = n.ret
    /\ ref_index' = RefUndo(ref, ref_index)
    /\ undos' = undos + 1
    /\ op' = "undo"
    /\ UNCHANGED << stack, arg, pushes, discarded, io_errors, ref, lvars, gvars >>

Redo ==
    /\ LET n == redo(stack, current_index)
       IN  /\ current_index' = n.current_index
           /\ ret' = n.ret
    /\ ref_index' = RefRedo(ref, ref_index)
    /\ op' = "redo"
    /\ UNCHANGED << stack, arg, pushes, undos, discarded, io_errors, ref, lvars, gvars >>

Init == InitHistory /\ InitLayout /\ InitGridIdle

Next == PushState \/ Undo \/ Redo

\* The HistoryManager driven by any sequence of push_state / undo / redo.
Spec == Init /\ [][Next]_vars

NextFault == PushStateIo \/ Undo \/ Redo

\* The same, with compress_state's IO-error branch taken at most MaxIoErrors times.
SpecFault == Init /\ [][NextFault]_vars

\* Steps of the three calls, as seen from outside.
IsPush == pushes' = pushes + 1
IsUndo == undos' = undos + 1
IsRedo == op' = "redo" /\ pushes' = pushes /\ undos' = undos

\* The LayoutEngine driven by any sequence of update_rects / query_snapping.
SpecLayout == Init /\ [][NextLayout]_vars

NextGrid == AbsoluteToGrid

\* Fresh HistoryManager and LayoutEngine, and absolute_to_grid entered.
InitGrid == InitHistory /\ InitLayout /\ InitGridCall

\* absolute_to_grid called once on any of the inputs.
SpecGrid == InitGrid /\ [][NextGrid]_vars

----------------------------------------------------------------------------
(* Claims about the HistoryManager.                                        *)

\* C1: in every reachable state the stack is non-empty, the cursor satisfies
\* 0 <= current_index <= stack.len() - 1, and stack.len() <= max_history.
C1_HistoryInvariant ==
    /\ Len(stack) >= 1
    /\ current_index >= 0
    /\ current_index <= Len(stack) - 1
    /\ Len(stack) <= max_history

\* C1 witness: more states were pushed than the capacity holds, and the cursor
\* has been moved off the top of the full stack.
C1_Witness ==
    /\ pushes > max_history
    /\ Len(stack) = max_history
    /\ op = "undo"
    /\ current_index = max_history - 2

\* C2: a push_state made while a redo branch exists drops every entry above
\* the cursor before it appends; after any push_state the cursor is on the
\* entry just pushed, which is the top of the stack, and can_redo() is false;
\* and no undo / redo ever returns a payload that a truncation discarded.
C2_BranchTruncation ==
    [][ /\ IsPush =>
            /\ current_index < Len(stack) - 1 =>
                 stack' = Append(SubSeq(stack, 1, current_index + 1),
                                 compress_state(arg', TRUE))
            /\ current_index' = Len(stack') - 1
            /\ decompress_state(stack'[current_index' + 1]) = Some(arg')
            /\ ~can_redo(stack', current_index')
        /\ (IsUndo \/ IsRedo) =>
            /\ ret' # None => ret'[1] \notin discarded'
            /\ discarded' \cap Payloads(stack') = {}
      ]_vars

\* C2 witness: 3 pushes, 2 undos, 1 push (payloads 2 and 3 are discarded),
\* then a redo, which found nothing to return.
C2_Witness ==
    /\ pushes = 4
    /\ undos = 2
    /\ discarded = {2, 3}
    /\ Payloads(stack) = {0, 1, 4}
    /\ current_index = 2
    /\ op = "redo"
    /\ ret = None

\* C3: a push_state that makes the stack longer than max_history evicts
\* exactly the oldest entry: the other entries keep their order, the cursor is
\* one below its pre-eviction value and designates the state just pushed; a
\* push that does not overflow evicts nothing; the length never exceeds 50.
C3_Eviction ==
    [][ IsPush =>
          LET pre == Append(truncate(stack, current_index + 1),
                            compress_state(arg', TRUE))
          IN  /\ Len(pre) > max_history =>
                   /\ Len(stack') = Len(pre) - 1
                   /\ \A i \in 1..Len(stack') : stack'[i] = pre[i + 1]
                   /\ current_index' = (current_index + 1) - 1
              /\ Len(pre) <= max_history => stack' = pre
              /\ decompress_state(stack'[current_index' + 1]) = Some(arg')
              /\ Len(stack') <= max_history
      ]_vars

\* C3 witness: 51 states pushed on top of the seed, no undo: the seed and
\* payload 1 are gone, payload 2 is the oldest, the cursor is on payload 51.
C3_Witness ==
    /\ pushes = max_history + 1
    /\ undos = 0
    /\ op = "push_state"
    /\ Len(stack) = max_history
    /\ decompress_state(stack[1]) = Some(2)
    /\ current_index = max_history - 1
    /\ decompress_state(stack[current_index + 1]) = Some(max_history + 1)

\* C4: the HistoryManager refines the uncompressed reference history: the
\* stack decodes entry by entry to the reference payloads and the cursors
\* agree; an undo with current_index > 0 moves the cursor down by one and
\* returns the reference payload at the new cursor, a redo with
\* current_index < stack.len() - 1 moves it up by one and returns the
\* reference payload there.
C4_Refinement ==
    [][ /\ Len(stack') = Len(ref')
        /\ \A i \in 1..Len(ref') : decompress_state(stack'[i]) = Some(ref'[i])
        /\ current_index' = ref_index'
        /\ (IsUndo /\ current_index > 0) =>
              /\ current_index' = current_index - 1
              /\ ret' = Some(ref[current_index' + 1])
        /\ (IsRedo /\ current_index < Len(stack) - 1) =>
              /\ current_index' = current_index + 1
              /\ ret' = Some(ref[current_index' + 1])
      ]_vars

\* C4 witness: after an eviction and a truncation, an undo followed by a
\* redo has returned the payload that was current before the undo.
C4_Witness ==
    /\ op = "redo"
    /\ undos = 2
    /\ pushes > max_history
    /\ discarded # {}
    /\ ret = Some(pushes)

\* C5: undo at current_index = 0 and redo at the top of the stack return
\* None and leave stack and current_index as they are; can_undo() / can_redo()
\* is true exactly when the undo() / redo() call would move the cursor and
\* return a payload.
C5_BoundaryNoOps ==
    [][ /\ (IsUndo /\ current_index = 0) =>
              ret' = None /\ stack' = stack /\ current_index' = current_index
        /\ (IsRedo /\ current_index = Len(stack) - 1) =>
              ret' = None /\ stack' = stack /\ current_index' = current_index
        /\ can_undo(stack, current_index) <=>
              /\ undo(stack, current_index).current_index # current_index
              /\ undo(stack, current_index).ret # None
        /\ can_redo(stack, current_index) <=>
              /\ redo(stack, current_index).current_index # current_index
              /\ redo(stack, current_index).ret # None
      ]_vars

\* C5 witness: the cursor was undone down to the seed of a stack that holds
\* more entries, and one more undo returned None.
C5_Witness ==
    /\ op = "undo"
    /\ ret = None
    /\ current_index = 0
    /\ Len(stack) = 2
    /\ undos = 2

\* C6: an undo / redo whose entry fails to decompress is never reported as
\* the ordinary empty result: a None result means there was nothing to undo /
\* redo, so the cursor has not moved.
C6_FailureIsNotEmptyResult ==
    [][ ((IsUndo \/ IsRedo) /\ ret' = None) => current_index' = current_index ]_vars

----------------------------------------------------------------------------
(* Claims about the LayoutEngine.                                          *)

\* The target point of pair p (1..9): left / center / right of the dragged
\* rect, three pairs each.
TargetPoint(pos, size, p) ==
    CASE p \in 1..3 -> pos
      [] p \in 4..6 -> F64Add(pos, F64DivSmall(size, 2))
      [] p \in 7..9 -> F64Add(pos, size)

\* The sibling point of pair p: left, center, right, cyclically.
SibPoint(pos, size, p) ==
    CASE p \in {1, 4, 7} -> pos
      [] p \in {2, 5, 8} -> F64Add(pos, F64DivSmall(size, 2))
      [] p \in {3, 6, 9} -> F64Add(pos, size)

\* The sibling point of pair p of sibling idx on each axis.
SibX(idx, p) == SibPoint(rects[idx + 1].x, rects[idx + 1].w, p)
SibY(idx, p) == SibPoint(rects[idx + 1].y, rects[idx + 1].h, p)

\* The gap of pair p between the dragged rect at x (resp. y) and sibling idx.
GapX(x, idx, p) == F64Abs(F64Sub(TargetPoint(x, q.width, p), SibX(idx, p)))
GapY(y, idx, p) == F64Abs(F64Sub(TargetPoint(y, q.height, p), SibY(idx, p)))

\* The gap is below the threshold of the query.
NearX(x, idx, p) == F64Lt(GapX(x, idx, p), q.threshold)
NearY(y, idx, p) == F64Lt(GapY(y, idx, p), q.threshold)

Queried == lop = "query_snapping"

\* Position of candidate idx in the candidate list of the last query.
CandPos(idx) == CHOOSE k \in 1..Len(res.candidates) : res.candidates[k] = idx

GuidesOf(orientation) ==
    { i \in 1..Len(res.guides) : res.guides[i].orientation = orientation }

\* C7: if on an axis some candidate has an edge or center closer than
\* threshold to an edge or center of the dragged rect, the call snaps that
\* axis, and at the returned coordinate the gap of the winning pair is
\* exactly 0: the target point lies on the guide, which lies on the sibling
\* point.
C7_SnapClosesGap ==
    Queried =>
      /\ (\E k \in 1..Len(res.candidates), p \in 1..9 :
              NearX(q.x, res.candidates[k], p)) =>
           /\ res.hit_x # << >>
           /\ GapX(res.x, res.hit_x[1], res.hit_x[2]) = F64Zero
           /\ \E i \in GuidesOf("vertical") :
                 res.guides[i].pos = TargetPoint(res.x, q.width, res.hit_x[2])
      /\ (\E k \in 1..Len(res.candidates), p \in 1..9 :
              NearY(q.y, res.candidates[k], p)) =>
           /\ res.hit_y # << >>
           /\ GapY(res.y, res.hit_y[1], res.hit_y[2]) = F64Zero
           /\ \E i \in GuidesOf("horizontal") :
                 res.guides[i].pos = TargetPoint(res.y, q.height, res.hit_y[2])

\* First match on X in the order of the list `order` of candidates: the
\* winner (idx, p) is below threshold, every pair of every candidate before
\* idx in `before` and every earlier pair of idx is not, and the returned x
\* is the queried x moved by the winner's signed gap s - t; with no winner
\* nothing is below threshold and x is returned as queried.
FirstMatchX(before) ==
    IF res.hit_x = << >>
    THEN /\ \A k \in 1..Len(res.candidates), p \in 1..9 :
               ~NearX(q.x, res.candidates[k], p)
         /\ res.x = q.x
         /\ GuidesOf("vertical") = {}
    ELSE LET idx == res.hit_x[1]
             p == res.hit_x[2]
         IN  /\ NearX(q.x, idx, p)
             /\ \A o \in 1..(p - 1) : ~NearX(q.x, idx, o)
             /\ \A c \in before[idx], o \in 1..9 : ~NearX(q.x, c, o)
             /\ res.x = F64Add(q.x, F64Sub(SibX(idx, p), TargetPoint(q.x, q.width, p)))
             /\ Cardinality(GuidesOf("vertical")) = 1

FirstMatchY(before) ==
    IF res.hit_y = << >>
    THEN /\ \A k \in 1..Len(res.candidates), p \in 1..9 :
               ~NearY(q.y, res.candidates[k], p)
         /\ res.y = q.y
         /\ GuidesOf("horizontal") = {}
    ELSE LET idx == res.hit_y[1]
             p == res.hit_y[2]
         IN  /\ NearY(q.y, idx, p)
             /\ \A o \in 1..(p - 1) : ~NearY(q.y, idx, o)
             /\ \A c \in before[idx], o \in 1..9 : ~NearY(q.y, c, o)
             /\ res.y = F64Add(q.y, F64Sub(SibY(idx, p), TargetPoint(q.y, q.height, p)))
             /\ Cardinality(GuidesOf("horizontal")) = 1

\* The candidates before idx in the candidate list (first-encounter order).
BeforeInCandidateList ==
    [idx \in SeqRange(res.candidates) |->
        { res.candidates[k] : k \in 1..(CandPos(idx) - 1) }]

\* The candidates before idx in the rect list given to update_rects.
BeforeInRectList ==
    [idx \in SeqRange(res.candidates) |->
        { c \in SeqRange(res.candidates) : c < idx }]

\* C8 as stated: first match per axis, candidates taken in ascending rect
\* index, the nine pairs in the fixed order.
C8_FirstMatchInRectIndexOrder ==
    Queried => FirstMatchX(BeforeInRectList) /\ FirstMatchY(BeforeInRectList)

\* C8 as amended: first match per axis, candidates taken in the order of the
\* candidate list (first encounter over the covered cells), the nine pairs
\* in the fixed order; the first pair below threshold decides the axis even
\* when a later pair or candidate is closer, and nothing later is applied.
C8_FirstMatchInCandidateOrder ==
    Queried => FirstMatchX(BeforeInCandidateList) /\ FirstMatchY(BeforeInCandidateList)

\* C8 witness: the X axis was snapped by a pair although a later pair of a
\* later candidate was strictly closer.
C8_Witness ==
    /\ Queried
    /\ res.hit_x # << >>
    /\ \E k \in 1..Len(res.candidates), p \in 1..9 :
          /\ k > CandPos(res.hit_x[1])
          /\ F64Lt(GapX(q.x, res.candidates[k], p),
                   GapX(q.x, res.hit_x[1], res.hit_x[2]))

\* C9: querying again at the returned position, with the same size and
\* threshold against the same index, returns the same x, y and guide list.
C9_Idempotent ==
    Queried =>
      LET again == query_snapping(rects, grid, cell_size, res.x, res.y,
                                  q.width, q.height, q.threshold)
      IN  /\ again.x = res.x
          /\ again.y = res.y
          /\ again.guides = res.guides

RECURSIVE Encounter(_, _, _)
\* Every index met while enumerating the covered cells, repeats included.
Encounter(g, cells, k) ==
    IF k > Len(cells) THEN << >>
    ELSE bucket(g, cells[k]) \o Encounter(g, cells, k + 1)

FirstPos(s, v) == CHOOSE i \in 1..Len(s) : s[i] = v /\ \A j \in 1..(i - 1) : s[j] # v

Encountered ==
    Encounter(grid, query_cells(cell_size, q.x, q.y, q.width, q.height, q.threshold), 1)

\* C10: with threshold <= cell_size, the candidate list of a query holds
\* every rect index met in the covered cells exactly once, however many of
\* the covered cells the rect spans, in the order of first encounter.
C10_DedupFirstEncounter ==
    (Queried /\ F64Le(q.threshold, cell_size)) =>
      LET c == res.candidates
      IN  /\ \A i, j \in 1..Len(c) : i # j => c[i] # c[j]
          /\ SeqRange(c) = SeqRange(Encountered)
          /\ \A i, j \in 1..Len(c) :
                i < j => FirstPos(Encountered, c[i]) < FirstPos(Encountered, c[j])

\* C10 witness: a rect met in four covered cells and another one met later,
\* each once in the candidate list.
C10_Witness ==
    /\ Queried
    /\ F64Le(q.threshold, cell_size)
    /\ Len(res.candidates) = 2
    /\ \E idx \in SeqRange(res.candidates) :
          Cardinality({ i \in 1..Len(Encountered) : Encountered[i] = idx }) >= 4

\* 1.5 x mean((w + h) / 2) over rs, clamped to [50, 500], and 100 for no
\* rects, in f64.
ExpectedCellSize(rs) ==
    IF Len(rs) = 0 THEN F64FromInt(100)
    ELSE LET mean == F64DivSmall(SumDims(rs, 1, F64Zero), 2 * Len(rs))
             scaled == F64MulSmall(mean, 3, 1)
         IN  IF F64Lt(scaled, F64FromInt(50)) THEN F64FromInt(50)
             ELSE IF F64Lt(F64FromInt(500), scaled) THEN F64FromInt(500)
             ELSE scaled

\* C11: after any sequence of update_rects calls cell_size is
\* clamp(1.5 x mean((w+h)/2), 50, 500) of the current rects, 100 when there
\* are none, and so lies in [50, 500].
C11_CellSizeFromCurrentRects ==
    /\ cell_size = ExpectedCellSize(rects)
    /\ F64Le(F64FromInt(50), cell_size)
    /\ F64Le(cell_size, F64FromInt(500))

\* floor(v / cell_size) in the arithmetic of the program: the quotient is
\* rounded to f64 before the floor is taken.
FloorCell(v) == F64Floor(F64Div(v, cell_size))

\* The cells the bounding box of r overlaps.
OverlappedCells(r) ==
    (FloorCell(r.x) .. FloorCell(F64Add(r.x, r.w)))
        \X (FloorCell(r.y) .. FloorCell(F64Add(r.y, r.h)))

\* C12: the grid reflects exactly the current rect list: every rect index
\* is in every cell its bounding box overlaps (at least one) and in no other
\* cell, once per cell, and every stored index is below rects.len().
C12_GridMatchesRects ==
    /\ \A c \in DOMAIN grid :
          /\ grid[c] # << >>
          /\ \A i \in 1..Len(grid[c]) : grid[c][i] \in 0..(Len(rects) - 1)
          /\ \A i, j \in 1..Len(grid[c]) : i # j => grid[c][i] # grid[c][j]
    /\ \A idx \in 0..(Len(rects) - 1) :
          /\ OverlappedCells(rects[idx + 1]) # {}
          /\ { c \in DOMAIN grid : idx \in SeqRange(grid[c]) }
                = OverlappedCells(rects[idx + 1])

\* C12 witness: a build of two rects, one of them in four cells, one cell
\* holding both.
C12_Witness ==
    /\ lop = "update_rects"
    /\ Len(rects) = 2
    /\ Cardinality(OverlappedCells(rects[2])) = 4
    /\ Cardinality(OverlappedCells(rects[1])) = 1
    /\ \E c \in DOMAIN grid : grid[c] = << 0, 1 >>

\* C13: one guide per snapped axis, none for an axis that did not snap,
\* whose coordinate is returned as queried; a guide's pos is the matched
\* sibling coordinate and its [start, end] is the union of the sibling's
\* extent and the dragged rect's extent, at the returned position, on the
\* other axis.
C13_GuidePerSnappedAxis ==
    Queried =>
      /\ Cardinality(GuidesOf("vertical")) = (IF res.hit_x = << >> THEN 0 ELSE 1)
      /\ Cardinality(GuidesOf("horizontal")) = (IF res.hit_y = << >> THEN 0 ELSE 1)
      /\ Len(res.guides)
            = Cardinality(GuidesOf("vertical")) + Cardinality(GuidesOf("horizontal"))
      /\ res.hit_x = << >> => res.x = q.x
      /\ res.hit_y = << >> => res.y = q.y
      /\ \A i \in GuidesOf("vertical") :
            LET sib == rects[res.hit_x[1] + 1]
            IN  /\ res.guides[i].pos = SibX(res.hit_x[1], res.hit_x[2])
                /\ res.guides[i].start = F64Min(res.y, sib.y)
                /\ res.guides[i].end
                      = F64Max(F64Add(res.y, q.height), F64Add(sib.y, sib.h))
      /\ \A i \in GuidesOf("horizontal") :
            LET sib == rects[res.hit_y[1] + 1]
            IN  /\ res.guides[i].pos = SibY(res.hit_y[1], res.hit_y[2])
                /\ res.guides[i].start = F64Min(res.x, sib.x)
                /\ res.guides[i].end
                      = F64Max(F64Add(res.x, q.width), F64Add(sib.x, sib.w))


----------------------------------------------------------------------------
(* Claims about the grid converter, over the states of SpecGrid.           *)

\* absolute_to_grid has returned for a nodes_json that parsed.
Converted == g_pc = "done" /\ g_input.parsed

\* The nodes of the call as f64, and their edge coordinates on each axis.
ParsedNodes == [i \in 1..Len(g_input.nodes) |-> parse_node(g_input.nodes[i])]
XRaw == x_raw_of(ParsedNodes)
YRaw == y_raw_of(ParsedNodes)

\* The canonical lines of the submitted nodes on each axis.
XLines == dedup_coords(XRaw)
YLines == dedup_coords(YRaw)

\* C14: absolute_to_grid returns an error and no layout if the node list is
\* empty or clustering leaves fewer than 2 canonical lines on X or on Y;
\* otherwise it succeeds with at least one column track, at least one row
\* track and exactly one item per input node, in input order.
C14_FailsOnEmptyOrDegenerate ==
    Converted =>
        LET nodes == g_input.nodes
            too_few == nodes = << >> \/ Len(XLines) < 2 \/ Len(YLines) < 2
        IN  /\ g_res.ok <=> ~too_few
            /\ ~g_res.ok =>
                  /\ g_res.err # ""
                  /\ g_res.items = << >>
                  /\ g_res.col_widths_px = << >> /\ g_res.row_heights_px = << >>
                  /\ g_res.template_columns = << >> /\ g_res.template_rows = << >>
            /\ g_res.ok =>
                  /\ g_res.err = ""
                  /\ Len(g_res.col_widths_px) >= 1
                  /\ Len(g_res.row_heights_px) >= 1
                  /\ Len(g_res.template_columns) = Len(g_res.col_widths_px)
                  /\ Len(g_res.template_rows) = Len(g_res.row_heights_px)
                  /\ Len(g_res.items) = Len(nodes)
                  /\ \A i \in 1..Len(nodes) : g_res.items[i].id = nodes[i].id

\* A lone 2 px high strip: two lines on X, one on Y, and the call failed.
C14_Witness ==
    /\ Converted
    /\ Len(g_input.nodes) = 1
    /\ Len(g_res.x_breaks) = 2 /\ Len(g_res.y_breaks) = 1
    /\ ~g_res.ok

\* |v| for whole numbers.
Abs(v) == IF v < 0 THEN -v ELSE v

\* The layout of a single node: one column and one row track within 1 px of
\* w and h, and the item on lines 1..2 of both axes.
SingleNodeLayout(node) ==
    /\ g_res.ok
    /\ Len(g_res.col_widths_px) = 1
    /\ Len(g_res.row_heights_px) = 1
    /\ Abs(10 * g_res.col_widths_px[1] - node.w) <= 10
    /\ Abs(10 * g_res.row_heights_px[1] - node.h) <= 10
    /\ Len(g_res.items) = 1
    /\ g_res.items[1] = [id |-> node.id, col_start |-> 1, col_end |-> 2,
                         row_start |-> 1, row_end |-> 2]

EdgesApart(lo, size) ==
    F64Lt(F64FromInt(SNAP_TOL), F64Sub(F64Add(lo, size), lo))

RECURSIVE SumRange(_, _, _)
\* group_sum after v[a], ..., v[b] were added in this order.
SumRange(v, a, b) == IF a = b THEN v[a] ELSE F64Add(SumRange(v, a, b - 1), v[b])

RECURSIVE GroupStart(_, _)
\* The position in the sorted values at which the g-th group begins.
GroupStart(groups, g) ==
    IF g = 1 THEN 1 ELSE GroupStart(groups, g - 1) + groups[g - 1].count

\* v is ascending and holds the values of raw, each as often as raw does.
SortedFrom(v, raw) ==
    /\ Len(v) = Len(raw)
    /\ \A i \in 1..(Len(v) - 1) : F64Le(v[i], v[i + 1])
    /\ \A x \in SeqRange(raw) :
          Cardinality({i \in 1..Len(v) : v[i] = x})
            = Cardinality({i \in 1..Len(raw) : raw[i] = x})

\* The distance of val to the mean of v[a..b] is at most SNAP_TOL.
NearMean(val, v, a, b) ==
    F64Le(F64Abs(F64Sub(val, F64DivSmall(SumRange(v, a, b), b - a + 1))),
          F64FromInt(SNAP_TOL))

\* groups are the groups of a left-to-right walk over v in which a value
\* joins the group before it iff it is at most SNAP_TOL from the mean of that
\* group as it stands, each line being the mean of its group.
GreedyGroups(v, groups) ==
    /\ Len(groups) >= 1
    /\ GroupStart(groups, Len(groups)) + groups[Len(groups)].count = Len(v) + 1
    /\ \A g \in 1..Len(groups) :
          LET a == GroupStart(groups, g)
              n == groups[g].count
              b == a + n - 1
          IN  /\ n >= 1
              /\ groups[g].line = F64DivSmall(SumRange(v, a, b), n)
              /\ \A k \in (a + 1)..b : NearMean(v[k], v, a, k - 1)
              /\ b < Len(v) => ~NearMean(v[b + 1], v, a, b)

\* dedup_coords of raw behaves as C16 says.
DedupAsSpecified(raw) ==
    LET v == sort_coords(raw)
        groups == dedup_groups(raw)
        lines == dedup_coords(raw)
    IN  /\ SortedFrom(v, raw)
        /\ GreedyGroups(v, groups)
        /\ lines = [i \in 1..Len(groups) |-> groups[i].line]
        /\ \A i \in 1..(Len(lines) - 1) : F64Le(lines[i], lines[i + 1])
        /\ Len(raw) = 2 =>
              (Len(lines) = 1
                 <=> F64Le(F64Abs(F64Sub(raw[2], raw[1])), F64FromInt(SNAP_TOL)))

\* C16: dedup_coords walks the sorted values and puts a value into the
\* current group iff its distance to the group's running mean at that moment
\* is <= 4 px, otherwise seals the group as its mean and starts a new one; two
\* coordinates merge into one line iff they are at most 4 px apart (3.9 and
\* exactly 4 merge, 4.1 stay two lines); the output lines are ascending.
\* Means and distances are the f64 values the code computes.
C16_GreedyClustering ==
    (Converted /\ g_input.nodes # << >>) =>
        /\ DedupAsSpecified(XRaw)
        /\ DedupAsSpecified(YRaw)

\* Two X coordinates exactly 4 px apart (0 and 4) became one line.
C16_Witness ==
    /\ Converted
    /\ Len(g_input.nodes) = 1
    /\ g_input.nodes[1].x = 0
    /\ g_input.nodes[1].w = 10 * SNAP_TOL
    /\ Len(g_res.x_breaks) = 1
    /\ Len(g_res.y_breaks) = 2

\* The group (1-based) into which the coordinate target of raw was merged.
ClusterOf(raw, target) ==
    LET v == sort_coords(raw)
        groups == dedup_groups(raw)
        k == CHOOSE i \in 1..Len(v) : v[i] = target
    IN  CHOOSE g \in 1..Len(groups) :
            /\ GroupStart(groups, g) <= k
            /\ k < GroupStart(groups, g) + groups[g].count

\* The line numbered n (1-based) is within SNAP_TOL of target.
WithinBand(lines, n, target) ==
    F64Le(F64Abs(F64Sub(lines[n], target)), F64FromInt(SNAP_TOL))

\* The line chosen for the edge coordinate target is within SNAP_TOL of it and
\* is the line of the cluster target was merged into.
EdgeOnOwnLine(raw, lines, chosen, target) ==
    /\ chosen \in 1..Len(lines)
    /\ WithinBand(lines, chosen, target)
    /\ chosen = ClusterOf(raw, target)

\* C17: for every node edge coordinate (x, x+w, y, y+h), the canonical line
\* find_coord_idx selects for it is within SNAP_TOL of the coordinate and is
\* the mean of the cluster the coordinate was merged into.
C17_EdgeSnapsToOwnCluster ==
    (Converted /\ g_res.ok) =>
        \A i \in 1..Len(g_input.nodes) :
          /\ EdgeOnOwnLine(XRaw, g_res.x_breaks, g_res.items[i].col_start,
                           XRaw[2 * i - 1])
          /\ EdgeOnOwnLine(XRaw, g_res.x_breaks, g_res.items[i].col_end,
                           XRaw[2 * i])
          /\ EdgeOnOwnLine(YRaw, g_res.y_breaks, g_res.items[i].row_start,
                           YRaw[2 * i - 1])
          /\ EdgeOnOwnLine(YRaw, g_res.y_breaks, g_res.items[i].row_end,
                           YRaw[2 * i])

\* Consecutive lines are more than SNAP_TOL apart.
LinesApart(lines) ==
    \A i \in 1..(Len(lines) - 1) :
        F64Lt(F64FromInt(SNAP_TOL), F64Sub(lines[i + 1], lines[i]))

\* sizes are the distances of consecutive lines rounded to whole pixels (at
\* most half a pixel off), one per pair of lines, each at least 4.
TracksOf(lines, sizes) ==
    /\ Len(sizes) = Len(lines) - 1
    /\ \A i \in 1..Len(sizes) :
          /\ sizes[i] >= 4
          /\ F64Le(F64Abs(F64Sub(F64FromInt(sizes[i]),
                                 F64Sub(lines[i + 1], lines[i]))),
                   F64DivSmall(F64FromInt(1), 2))

====
